---- MODULE Spec2Model ----
(***************************************************************************)
(* Wio Terminal air quality monitor: the two sketches of the repository.   *)
(*   "nonblocking" : src/unnamed/part_000 (millis()-paced loop)            *)
(*   "legacy"      : src/air-quality-monitor/air-quality-monitor.ino       *)
(*                   (delay()-paced loop)                                  *)
(* Floating point readings of the DHT sensor are carried in tenths         *)
(* (234 stands for 23.4); NaN is a value of its own.                       *)
(* A 32 bit unsigned long is carried as two 16 bit halves [hi, lo], its    *)
(* value being hi * 2^16 + lo, so that the arithmetic modulo 2^32 of the   *)
(* counter is exact.                                                       *)
(***************************************************************************)
EXTENDS Integers, Sequences, FiniteSets, TLC

VARIABLES
    sketch,      \* which of the two sketches is flashed
    tft,         \* display size after setRotation(3): [width, height]
    panels,      \* rectangles setupDisplayLayout handed to drawSensorBox
    clock,       \* what millis() last returned to loop() (unsigned long, 32 bit)
    lastUpdate,  \* static unsigned long lastUpdate of loop()
    since,       \* history: milliseconds really elapsed since lastUpdate was set
    pc,          \* position inside loop(): [at, ch, k]
    raw,         \* local holding the sensor reading (raw / temperature / humidity)
    value,       \* local holding the converted reading (value / tempInt / humInt)
    glob,        \* the globals voc, co, no2, c2h5ch
    call,        \* the active displayData frame
    spr,         \* the TFT_eSprite spr
    sample,      \* history: what the sensor driver returned for the current reading
    events,      \* history: reads, Serial lines and sprite calls of the current pass
    warned       \* history: DHT readings whose failure has been logged in this run

vars == <<sketch, tft, panels, clock, lastUpdate, since, pc, raw, value, glob,
          call, spr, sample, events, warned>>

----------------------------------------------------------------------------
(* Bounds of the model *)

\* the clock is observed at the instants k*Half and k*Half - 1, |k| <= MaxSlot
MaxSlot == 2

----------------------------------------------------------------------------
(* Program constants *)

\* not-a-number, and "no value" for a local that is out of scope
NaN == 0 - 2^30 - 1
None == 0 - 2^30 - 2

UPDATE_INTERVAL_MS == 5000
GAS_MAX == 999
HUMI_MAX == 99

\* variant: the invalid reading handed on instead of a fallback value
DhtFallbackInvalid == NaN

\* tempInt = 0 / humInt = 0 after a failed read
DHT_FALLBACK == 0

\* unsigned long is 32 bits wide on the SAMD51: two halves of HalfWord values each
HalfWord == 2^16

Sketches == {"nonblocking", "legacy"}
GasChannels == {"VOC", "CO", "NO2", "Ethyl"}
DhtChannels == {"Temp", "Humi"}
Channels == GasChannels \cup DhtChannels


----------------------------------------------------------------------------
(* Inputs *)

\* the unsigned long of value n, for 0 <= n < 2^31
U32(n) == [hi |-> n \div HalfWord, lo |-> n % HalfWord]

\* a - b in unsigned long arithmetic (modulo 2^32)
Sub32(a, b) ==
    LET l == a.lo - b.lo
    IN  [hi |-> (a.hi - b.hi - (IF l < 0 THEN 1 ELSE 0)) % HalfWord, lo |-> l % HalfWord]

\* a + b as an integer (not reduced modulo 2^32: hi may reach past HalfWord - 1)
Add(a, b) ==
    LET l == a.lo + b.lo
    IN  [hi |-> a.hi + b.hi + (l \div HalfWord), lo |-> l % HalfWord]

\* a < b, a <= b as integers
Less(a, b) == a.hi < b.hi \/ (a.hi = b.hi /\ a.lo < b.lo)
LessEq(a, b) == a = b \/ Less(a, b)

Half == UPDATE_INTERVAL_MS \div 2

\* the instants k * Half and k * Half - 1 of the counter, modulo 2^32
Instant(k) == IF k >= 0 THEN U32(k) ELSE Sub32(U32(0), U32(0 - k))

Instants ==
    {Instant(k * Half) : k \in -MaxSlot..MaxSlot}
        \cup {Instant(k * Half - 1) : k \in -MaxSlot..MaxSlot}

\* values the gas driver may return (those of a uint32_t below 2^31)
GasRaw == {0, 500, GAS_MAX, GAS_MAX + 1, 1200, 2^16 - 1, 2^30}

\* values readTemperature() may return, in tenths, or NaN
TempRaw == {NaN, -105, -4, 0, 234, 235}

\* values readHumidity() may return, in tenths, or NaN
HumiRaw == {NaN, -5, 0, 454, 455, 10 * HUMI_MAX, 10 * HUMI_MAX + 5, 1500}

SensorRange(ch) ==
    IF ch \in GasChannels THEN GasRaw
    ELSE IF ch = "Temp" THEN TempRaw ELSE HumiRaw

DisplaySizes == {[width |-> w, height |-> h] : w \in {320, 481}, h \in {240, 321}}

----------------------------------------------------------------------------
(* Arithmetic of the sketches *)

\* now - lastUpdate in unsigned long arithmetic
Elapsed(now, last) == Sub32(now, last)

\* variant: the test written as now < lastUpdate + UPDATE_INTERVAL_MS, the sum
\* taken in unsigned long arithmetic
NotDueBySum(now, last) ==
    LET s == Add(last, U32(UPDATE_INTERVAL_MS))
    IN  Less(now, [hi |-> s.hi % HalfWord, lo |-> s.lo])

\* variant: the test made against half the interval
NotDueHalfInterval(now, last) == Less(Sub32(now, last), U32(Half))

\* loop()'s test now - lastUpdate < UPDATE_INTERVAL_MS
NotDue(now, last) == Less(Elapsed(now, last), U32(UPDATE_INTERVAL_MS))

\* variant: constrain without its upper limit
ConstrainNoUpper(amt, low, high) ==
    IF amt = NaN THEN NaN
    ELSE IF amt < low THEN low
    ELSE amt

\* variant: constrain without its lower limit
ConstrainNoLower(amt, low, high) ==
    IF amt = NaN THEN NaN
    ELSE IF amt > high THEN high
    ELSE amt

\* Arduino's constrain(amt, low, high): both comparisons are false for NaN
Constrain(amt, low, high) ==
    IF amt = NaN THEN NaN
    ELSE IF amt < low THEN low
    ELSE IF amt > high THEN high
    ELSE amt

\* round(float): to the nearest integer, halves away from zero (argument in tenths)
Round(f) == IF f >= 0 THEN (f + 5) \div 10 ELSE 0 - ((5 - f) \div 10)

\* static_cast<int>(float) of a number: truncation towards zero (argument in tenths)
Trunc(f) == IF f >= 0 THEN f \div 10 ELSE 0 - ((0 - f) \div 10)

\* static_cast<int>(float): converting NaN is undefined behaviour, so any of the
\* results a build can produce (0, INT_MIN, INT_MAX) may come out
CastInt(f) == IF f = NaN THEN {0, 1 - 2^30 - 2^30, 2^30 - 1 + 2^30} ELSE {Trunc(f)}

----------------------------------------------------------------------------
(* Program text *)

\* variant: the last block of loop() left out
LoopOrderShort == <<"VOC", "CO", "Temp", "NO2", "Humi">>

\* variant: the NO2 block ahead of the temperature block
LoopOrderSwapped == <<"VOC", "CO", "NO2", "Temp", "Humi", "Ethyl">>

\* the order of the six blocks of loop()
LoopOrder == <<"VOC", "CO", "Temp", "NO2", "Humi", "Ethyl">>

\* variant: displayData without its closing deleteSprite
DisplayDataBodyLeaking ==
    <<"print", "createSprite", "fillSprite", "drawNumber", "pushSprite">>

\* the statements of displayData()
DisplayDataBody ==
    <<"print", "createSprite", "fillSprite", "drawNumber", "pushSprite", "deleteSprite">>

\* where displayData is told to put the number of a reading
Anchor(ch, t) ==
    LET W2 == t.width \div 2
        H2 == t.height \div 2
    IN  CASE ch = "VOC"   -> [x |-> 15, y |-> 100]
          [] ch = "CO"    -> [x |-> 15, y |-> 185]
          [] ch = "Temp"  -> [x |-> W2 - 1, y |-> 100]
          [] ch = "NO2"   -> [x |-> W2 + (W2 \div 2), y |-> 97]
          [] ch = "Humi"  -> [x |-> W2 - 1, y |-> H2 + 67]
          [] ch = "Ethyl" -> [x |-> W2 + (W2 \div 2), y |-> H2 + 67]

\* the rectangle setupDisplayLayout passes to drawSensorBox for a reading
PanelRect(ch, t) ==
    LET W2 == t.width \div 2
        H2 == t.height \div 2
        HB == t.height - 65
    IN  CASE ch = "VOC"   -> [x |-> 5, y |-> 60, w |-> W2 - 20, h |-> HB]
          [] ch = "CO"    -> [x |-> 5, y |-> 150, w |-> W2 - 20, h |-> HB]
          [] ch = "Temp"  -> [x |-> W2 - 10, y |-> 60, w |-> W2 \div 2, h |-> HB \div 2]
          [] ch = "NO2"   -> [x |-> (W2 + (W2 \div 2)) - 5, y |-> 60,
                              w |-> W2 \div 2, h |-> HB \div 2]
          [] ch = "Humi"  -> [x |-> W2 - 10, y |-> H2 + 30,
                              w |-> W2 \div 2, h |-> HB \div 2]
          [] ch = "Ethyl" -> [x |-> (W2 + (W2 \div 2)) - 5, y |-> H2 + 30,
                              w |-> W2 \div 2, h |-> HB \div 2]

\* setupDisplayLayout(): one drawSensorBox per reading
SetupDisplayLayout(t) == [ch \in Channels |-> PanelRect(ch, t)]

----------------------------------------------------------------------------
(* State *)

NoCall == [label |-> "none", value |-> None, x |-> 0, y |-> 0,
           line |-> <<>>, pushed |-> <<>>]
NoSprite == [alloc |-> FALSE, cleared |-> FALSE, num |-> None]

Idle == [at |-> "idle", ch |-> 0, k |-> 0]
FirstRead == [at |-> "read", ch |-> 1, k |-> 0]

\* the reading loop() is working on
Cur == LoopOrder[pc.ch]

\* where loop() continues when displayData returns
AfterDisplay ==
    IF pc.ch < Len(LoopOrder) THEN [at |-> "read", ch |-> pc.ch + 1, k |-> 0]
    ELSE IF sketch = "nonblocking" THEN [at |-> "yield", ch |-> 0, k |-> 0]
    ELSE [at |-> "delay", ch |-> 0, k |-> 0]

Init ==
    /\ sketch \in Sketches
    /\ tft \in DisplaySizes
    /\ panels = SetupDisplayLayout(tft)
    /\ clock = U32(0)
    /\ lastUpdate = U32(0)
    /\ since = U32(0)
    /\ pc = IF sketch = "nonblocking" THEN Idle ELSE FirstRead
    /\ raw = None
    /\ value = None
    /\ glob = [ch \in GasChannels |-> 0]
    /\ call = NoCall
    /\ spr = NoSprite
    /\ sample = None
    /\ events = <<>>
    /\ warned = {}

----------------------------------------------------------------------------
(* loop() *)

\* one full turn of the counter, 2^32 ms
FullTurn == [hi |-> HalfWord, lo |-> 0]

\* milliseconds really elapsed, counted up to one full turn of the counter
SatAdd(a, b) == IF LessEq(FullTurn, Add(a, b)) THEN FullTurn ELSE Add(a, b)

\* loop() of the non-blocking sketch is entered and millis() returns t
LoopEnter(t) ==
    /\ sketch = "nonblocking"
    /\ pc.at = "idle"
    /\ LET now == t
       IN  /\ clock' = now
           /\ IF NotDue(now, lastUpdate)
              THEN /\ since' = SatAdd(since, Elapsed(now, clock))
                   /\ UNCHANGED <<lastUpdate, pc, events>>
              ELSE /\ lastUpdate' = now
                   /\ since' = U32(0)
                   /\ pc' = FirstRead
                   /\ events' = <<>>
    /\ UNCHANGED <<sketch, tft, panels, raw, value, glob, call, spr, sample, warned>>

\* the sensor read that opens a block: gas.getGMxxx() / dht.readXxx() returns r
Read(r) ==
    /\ pc.at = "read"
    /\ r \in SensorRange(Cur)
    /\ IF sketch = "legacy" /\ Cur \in GasChannels
       THEN /\ glob' = [glob EXCEPT ![Cur] = r]
            /\ UNCHANGED raw
       ELSE /\ raw' = r
            /\ UNCHANGED glob
    /\ sample' = r
    /\ events' = Append(events, <<"read", Cur>>)
    /\ pc' = [pc EXCEPT !.at = "convert"]
    /\ UNCHANGED <<sketch, tft, panels, clock, lastUpdate, since, value, call, spr, warned>>

\* variant: a reading that failed once is taken as failed from then on
ReadFailedSticky == raw = NaN \/ Cur \in warned

\* isnan(temperature) / isnan(humidity)
ReadFailed == raw = NaN

\* non-blocking sketch: constrain the gas value, or validate and round the DHT value
ConvertNonBlocking ==
    /\ sketch = "nonblocking"
    /\ pc.at = "convert"
    /\ IF Cur \in GasChannels
       THEN /\ value' = Constrain(raw, 0, GAS_MAX)
            /\ UNCHANGED <<events, warned>>
       ELSE IF ReadFailed
       THEN /\ events' = Append(events, <<"warn", Cur>>)
            /\ warned' = warned \cup {Cur}
            /\ value' = DHT_FALLBACK
       ELSE IF Cur = "Temp"
       THEN /\ value' = Round(raw)
            /\ UNCHANGED <<events, warned>>
       ELSE /\ value' = Round(Constrain(raw, 0, 10 * HUMI_MAX))
            /\ UNCHANGED <<events, warned>>
    /\ pc' = [pc EXCEPT !.at = "call"]
    /\ UNCHANGED <<sketch, tft, panels, clock, lastUpdate, since, raw, glob, call,
                   spr, sample>>

\* legacy sketch: constrain the gas global, cast the temperature, constrain the humidity
ConvertLegacy ==
    /\ sketch = "legacy"
    /\ pc.at = "convert"
    /\ IF Cur \in GasChannels
       THEN /\ glob' = [glob EXCEPT ![Cur] = Constrain(glob[Cur], 0, GAS_MAX)]
            /\ UNCHANGED <<raw, value>>
       ELSE IF Cur = "Temp"
       THEN /\ value' \in CastInt(raw)
            /\ UNCHANGED <<raw, glob>>
       ELSE /\ raw' = Constrain(raw, 0, 10 * HUMI_MAX)
            /\ UNCHANGED <<value, glob>>
    /\ pc' = [pc EXCEPT !.at = "call"]
    /\ UNCHANGED <<sketch, tft, panels, clock, lastUpdate, since, call, spr, sample,
                   events, warned>>

\* the values the displayData call of the current block may be given
CallArgument ==
    IF sketch = "nonblocking" THEN {value}
    ELSE IF Cur \in GasChannels THEN {glob[Cur]}
    ELSE IF Cur = "Temp" THEN {value}
    ELSE CastInt(raw)

\* displayData(label, value, x, y) is entered
CallDisplayData ==
    /\ pc.at = "call"
    /\ \E v \in CallArgument :
           call' = [label |-> Cur, value |-> v, x |-> Anchor(Cur, tft).x,
                    y |-> Anchor(Cur, tft).y, line |-> <<>>, pushed |-> <<>>]
    /\ events' = Append(events, <<"displayData", Cur>>)
    /\ pc' = [pc EXCEPT !.at = "display", !.k = 1]
    /\ UNCHANGED <<sketch, tft, panels, clock, lastUpdate, since, raw, value, glob,
                   spr, sample, warned>>

----------------------------------------------------------------------------
(* displayData() *)

\* the statement displayData is about to execute
Stmt == IF pc.at = "display" THEN DisplayDataBody[pc.k] ELSE "none"

\* control after a statement of displayData: the next one, or the return to loop(),
\* where the block's locals go out of scope
StmtDone(frame) ==
    IF pc.k = Len(DisplayDataBody)
    THEN /\ pc' = AfterDisplay
         /\ call' = NoCall
         /\ raw' = None
         /\ value' = None
         /\ sample' = None
    ELSE /\ pc' = [pc EXCEPT !.k = pc.k + 1]
         /\ call' = frame
         /\ UNCHANGED <<raw, value, sample>>

\* Serial.print(label); Serial.print(": "); Serial.print(value); Serial.println(" ppm")
SerialPrint ==
    /\ Stmt = "print"
    /\ events' = Append(events, <<"print", call.label>>)
    /\ StmtDone([call EXCEPT !.line = <<call.label, ": ", call.value, " ppm">>])
    /\ UNCHANGED <<sketch, tft, panels, clock, lastUpdate, since, glob, spr, warned>>

\* spr.createSprite(45, 30): allocates unless the sprite already exists
CreateSprite ==
    /\ Stmt = "createSprite"
    /\ spr' = IF spr.alloc THEN spr ELSE [alloc |-> TRUE, cleared |-> FALSE, num |-> None]
    /\ events' = Append(events, <<"createSprite", call.label>>)
    /\ StmtDone(call)
    /\ UNCHANGED <<sketch, tft, panels, clock, lastUpdate, since, glob, warned>>

\* spr.fillSprite(TFT_BLACK)
FillSprite ==
    /\ Stmt = "fillSprite"
    /\ spr' = IF spr.alloc THEN [spr EXCEPT !.cleared = TRUE, !.num = None] ELSE spr
    /\ events' = Append(events, <<"fillSprite", call.label>>)
    /\ StmtDone(call)
    /\ UNCHANGED <<sketch, tft, panels, clock, lastUpdate, since, glob, warned>>

\* spr.setFreeFont(..); spr.setTextColor(..); spr.drawNumber(value, 0, 0, 1)
DrawNumber ==
    /\ Stmt = "drawNumber"
    /\ spr' = IF spr.alloc THEN [spr EXCEPT !.num = call.value] ELSE spr
    /\ events' = Append(events, <<"drawNumber", call.label>>)
    /\ StmtDone(call)
    /\ UNCHANGED <<sketch, tft, panels, clock, lastUpdate, since, glob, warned>>

\* spr.pushSprite(x, y): the sprite's content reaches the screen at (x, y)
PushSprite ==
    /\ Stmt = "pushSprite"
    /\ events' = Append(events, <<"pushSprite", call.label>>)
    /\ StmtDone(IF spr.alloc
                THEN [call EXCEPT !.pushed = <<call.x, call.y, spr.num>>]
                ELSE call)
    /\ UNCHANGED <<sketch, tft, panels, clock, lastUpdate, since, glob, spr, warned>>

\* spr.deleteSprite()
DeleteSprite ==
    /\ Stmt = "deleteSprite"
    /\ spr' = NoSprite
    /\ events' = Append(events, <<"deleteSprite", call.label>>)
    /\ StmtDone(call)
    /\ UNCHANGED <<sketch, tft, panels, clock, lastUpdate, since, glob, warned>>

----------------------------------------------------------------------------
(* end of loop() *)

\* non-blocking sketch: yield(), then loop() returns
Yield ==
    /\ pc.at = "yield"
    /\ pc' = Idle
    /\ UNCHANGED <<sketch, tft, panels, clock, lastUpdate, since, raw, value, glob,
                   call, spr, sample, events, warned>>

\* legacy sketch: delay(5000), then loop() returns and is entered again; this sketch
\* never reads the counter
Delay ==
    /\ pc.at = "delay"
    /\ pc' = FirstRead
    /\ events' = <<>>
    /\ UNCHANGED <<sketch, tft, panels, clock, lastUpdate, since, raw, value, glob,
                   call, spr, sample, warned>>

----------------------------------------------------------------------------
(* Specification *)

Next ==
    \/ \E t \in Instants : LoopEnter(t)
    \/ \E r \in GasRaw \cup TempRaw \cup HumiRaw : Read(r)
    \/ ConvertNonBlocking
    \/ ConvertLegacy
    \/ CallDisplayData
    \/ SerialPrint
    \/ CreateSprite
    \/ FillSprite
    \/ DrawNumber
    \/ PushSprite
    \/ DeleteSprite
    \/ Yield
    \/ Delay

Spec == Init /\ [][Next]_vars

\* The non-blocking sketch under its scheduling: the Arduino core calls loop()
\* again and again while the counter runs, and never lets a whole turn of the
\* counter pass between the tick of a pass and the next call that is due.
LiveInit == Init /\ sketch = "nonblocking"

PromptLoopEnter == \E t \in Instants : LoopEnter(t) /\ Less(since', FullTurn)

LiveNext ==
    \/ PromptLoopEnter
    \/ \E r \in GasRaw \cup TempRaw \cup HumiRaw : Read(r)
    \/ ConvertNonBlocking
    \/ CallDisplayData
    \/ SerialPrint
    \/ CreateSprite
    \/ FillSprite
    \/ DrawNumber
    \/ PushSprite
    \/ DeleteSprite
    \/ Yield

LiveSpec == LiveInit /\ [][LiveNext]_vars /\ WF_vars(LiveNext)

----------------------------------------------------------------------------
(* Properties *)

NonBlocking == sketch = "nonblocking"

\* how often event e occurs in the current pass
Count(e) == Cardinality({i \in DOMAIN events : events[i] = e})

\* the events of the current pass of one of the given kinds
OfKind(kinds) == SelectSeq(events, LAMBDA e : e[1] \in kinds)

\* everything a pass touches besides the counter reading
PassState == <<lastUpdate, pc, raw, value, glob, call, spr, sample, events, warned>>

\* C1 as stated: in the non-blocking sketch a tick at a time t with
\* t < T + 5000 (T the stored lastUpdate, compared as plain integers) is a no-op:
\* no read, no displayData call, no diagnostic line, lastUpdate unchanged.
C1_NoOpBelowSum ==
    [][(NonBlocking /\ pc.at = "idle"
            /\ Less(clock', Add(lastUpdate, U32(5000))))
        => UNCHANGED PassState]_vars

\* C1 amended: in the non-blocking sketch a tick at a time t with
\* (t - T) mod 2^32 < 5000 (T the stored lastUpdate) is a no-op: no read, no
\* displayData call, no diagnostic line, lastUpdate unchanged.
C1_NoOpWithinInterval ==
    [][(NonBlocking /\ pc.at = "idle"
            /\ Less(Sub32(clock', lastUpdate), U32(5000)))
        => UNCHANGED PassState]_vars

\* a no-op tick has happened after the counter wrapped: loop() is idle, a pass
\* has been made, and the counter reads less than lastUpdate, within the interval
C1_Witness ==
    /\ NonBlocking
    /\ pc.at = "idle"
    /\ events # <<>>
    /\ Less(clock, lastUpdate)
    /\ Less(Sub32(clock, lastUpdate), U32(5000))

\* C2: in the non-blocking sketch a tick at a time t >= T + 5000 sets lastUpdate
\* to t and starts a pass; a pass that has run to its end has made exactly one
\* sensor read, one displayData call and one reading line for each of the six
\* readings, and every reading line is "<Label>: <value> ppm" of its call.
C2_DueTickFullPass ==
    /\ [][(NonBlocking /\ pc.at = "idle"
               /\ LessEq(Add(lastUpdate, U32(5000)), clock'))
           => (lastUpdate' = clock' /\ pc'.at = "read" /\ pc'.ch = 1
                   /\ events' = <<>>)]_vars
    /\ [](NonBlocking /\ pc.at = "yield"
            => /\ \A ch \in {"VOC", "CO", "Temp", "NO2", "Humi", "Ethyl"} :
                    /\ Count(<<"read", ch>>) = 1
                    /\ Count(<<"displayData", ch>>) = 1
                    /\ Count(<<"print", ch>>) = 1
               /\ Len(OfKind({"read"})) = 6
               /\ Len(OfKind({"displayData"})) = 6
               /\ Len(OfKind({"print"})) = 6)
    /\ [](NonBlocking /\ call.line # <<>>
            => call.line = <<call.label, ": ", call.value, " ppm">>)

\* a pass of the non-blocking sketch has run to its end
C2_Witness == NonBlocking /\ pc.at = "yield" /\ lastUpdate = clock

\* C10: in the non-blocking sketch a pass starts only when at least 5000 ms have
\* really elapsed since the tick of the previous pass, it starts whenever between
\* 5000 ms and one turn of the counter have elapsed, and it sets lastUpdate to the
\* counter value of its tick; the counter wrapping in between changes none of this.
C10_PassesIntervalApart ==
    [][(NonBlocking /\ pc.at = "idle")
        => LET gap == SatAdd(since, Sub32(clock', clock))
           IN  /\ pc'.at # "idle" => (LessEq(U32(5000), gap) /\ lastUpdate' = clock')
               /\ (LessEq(U32(5000), gap) /\ Less(gap, FullTurn)) => pc'.at # "idle"]_vars

\* a pass has started at a counter value below 5000, not zero: the counter has
\* wrapped since the previous pass
C10_Witness ==
    /\ NonBlocking
    /\ pc.at = "read"
    /\ pc.ch = 1
    /\ lastUpdate # U32(0)
    /\ Less(lastUpdate, U32(5000))

\* C3: for each gas reading, in both sketches, the value passed to displayData
\* (and from there logged and drawn) is in 0..999, equals the raw value r the
\* driver returned when r <= 999, and is 999 when r > 999.
C3_GasClamped ==
    call.label \in {"VOC", "CO", "NO2", "Ethyl"}
        => /\ sample >= 0
           /\ call.value \in 0..999
           /\ sample <= 999 => call.value = sample
           /\ sample > 999 => call.value = 999
           /\ call.line # <<>> => call.line[3] = call.value
           /\ spr.num # None => spr.num = call.value

\* raw VOC 1200 has been logged and is in the sprite as 999
C3_Witness ==
    /\ call.label = "VOC"
    /\ sample = 1200
    /\ call.line = <<"VOC", ": ", 999, " ppm">>
    /\ spr.num = 999

\* C4: for a valid humidity reading h, in both sketches, the value passed to
\* displayData for "Humi" is in 0..99, equals h when h is a whole number in 0..99,
\* is 99 when h > 99 and is 0 when h < 0 (h in tenths).
C4_HumidityClamped ==
    (call.label = "Humi" /\ sample # NaN)
        => /\ call.value \in 0..99
           /\ (sample % 10 = 0 /\ sample >= 0 /\ sample <= 990)
                  => call.value = sample \div 10
           /\ sample > 990 => call.value = 99
           /\ sample < 0 => call.value = 0

\* humidity 150.0 is passed to displayData as 99
C4_Witness == call.label = "Humi" /\ sample = 1500 /\ call.value = 99

\* C5: in a pass of the non-blocking sketch a NaN temperature or humidity is
\* passed to displayData as 0 after exactly one warning line for that reading; a
\* valid one comes with no warning line; and a pass that ran to its end has
\* dispatched all six readings whatever failed.
C5_NaNFallback ==
    /\ (NonBlocking /\ call.label \in {"Temp", "Humi"})
           => IF sample = NaN
              THEN call.value = 0 /\ Count(<<"warn", call.label>>) = 1
              ELSE Count(<<"warn", call.label>>) = 0
    /\ (NonBlocking /\ pc.at = "yield")
           => /\ OfKind({"displayData"})
                    = << <<"displayData", "VOC">>, <<"displayData", "CO">>,
                         <<"displayData", "Temp">>, <<"displayData", "NO2">>,
                         <<"displayData", "Humi">>, <<"displayData", "Ethyl">> >>
              /\ Len(OfKind({"warn"})) <= 2

\* a pass in which both DHT reads failed has run to its end
C5_Witness ==
    /\ NonBlocking
    /\ pc.at = "yield"
    /\ OfKind({"warn"}) = << <<"warn", "Temp">>, <<"warn", "Humi">> >>

\* two rectangles share a pixel
Overlap(a, b) ==
    /\ a.x < b.x + b.w
    /\ b.x < a.x + a.w
    /\ a.y < b.y + b.h
    /\ b.y < a.y + a.h

\* C6: the six rectangles setupDisplayLayout passes to drawSensorBox are pairwise
\* non-overlapping for every display of 320x240 or more.
C6_PanelsDisjoint ==
    \A a, b \in {"VOC", "CO", "Temp", "NO2", "Humi", "Ethyl"} :
        a # b => ~Overlap(panels[a], panels[b])

\* the order of the readings, and of a read and its displayData call, as claimed
ClaimedPass ==
    << <<"read", "VOC">>, <<"displayData", "VOC">>,
       <<"read", "CO">>, <<"displayData", "CO">>,
       <<"read", "Temp">>, <<"displayData", "Temp">>,
       <<"read", "NO2">>, <<"displayData", "NO2">>,
       <<"read", "Humi">>, <<"displayData", "Humi">>,
       <<"read", "Ethyl">>, <<"displayData", "Ethyl">> >>

\* the values a reading r may be displayed as
Rendered(ch, r) ==
    IF ch \in GasChannels THEN {IF r > 999 THEN 999 ELSE r}
    ELSE IF r = NaN
    THEN (IF NonBlocking THEN {0} ELSE {0, 1 - 2^30 - 2^30, 2^30 - 1 + 2^30})
    ELSE LET c == IF ch = "Temp" THEN r
                  ELSE IF r < 0 THEN 0 ELSE IF r > 990 THEN 990 ELSE r
         IN  {IF NonBlocking THEN Round(c) ELSE Trunc(c)}

\* C8: in both sketches the reads and displayData calls of a pass come in the
\* order VOC, CO, Temp, NO2, Humi, Ethyl, each read directly followed by the
\* displayData call of the same reading, and the value displayed is derived from
\* the value that read returned in this pass.
C8_OrderedPairs ==
    /\ LET rd == OfKind({"read", "displayData"})
       IN  /\ Len(rd) <= Len(ClaimedPass)
           /\ rd = SubSeq(ClaimedPass, 1, Len(rd))
    /\ call.label # "none"
           => /\ sample # None
              /\ OfKind({"read"})[Len(OfKind({"read"}))] = <<"read", call.label>>
              /\ call.value \in Rendered(call.label, sample)

\* the legacy sketch, in a pass after its first one (the globals still hold the
\* values of the pass before), displays the VOC value it has just read
C8_Witness ==
    /\ sketch = "legacy"
    /\ call.label = "VOC"
    /\ glob["Ethyl"] = 999
    /\ sample = 500
    /\ call.value = 500

\* the sprite calls of the current pass
SpriteCalls ==
    OfKind({"createSprite", "fillSprite", "drawNumber", "pushSprite", "deleteSprite"})

\* the five sprite calls of one displayData call, as claimed
ClaimedSpriteCalls ==
    <<"createSprite", "fillSprite", "drawNumber", "pushSprite", "deleteSprite">>

\* C9: in both sketches every displayData call makes the sprite calls createSprite,
\* fillSprite, drawNumber, pushSprite, deleteSprite once each in this order; the
\* sprite is never created while allocated and is not allocated while displayData
\* is not executing.
C9_SpriteScoped ==
    /\ LET sc == SpriteCalls
           dd == OfKind({"displayData"})
       IN  /\ \A i \in DOMAIN sc :
                  /\ sc[i][1] = ClaimedSpriteCalls[((i - 1) % 5) + 1]
                  /\ sc[i][2] = dd[((i - 1) \div 5) + 1][2]
           /\ pc.at # "display" => Len(sc) = 5 * Len(dd)
    /\ Stmt = "createSprite" => ~spr.alloc
    /\ pc.at # "display" => ~spr.alloc

\* the sixth displayData call of a pass is about to create the sprite
C9_Witness == Stmt = "createSprite" /\ call.label = "Ethyl" /\ Len(SpriteCalls) = 25

\* C7: the non-blocking loop has no halting or sticky error state: while loop()
\* keeps being called and the counter keeps running, passes run to their end
\* again and again whatever the sensors return, and a valid DHT reading is
\* displayed as its own (rounded, for humidity clamped) value, never as the
\* fallback, however many reads failed before.
C7_NoStickyFault ==
    /\ []<>(pc.at = "yield")
    /\ [](call.label = "Temp" /\ sample # NaN
            => call.value = Round(sample))
    /\ [](call.label = "Humi" /\ sample # NaN
            => call.value = Round(IF sample < 0 THEN 0
                                  ELSE IF sample > 990 THEN 990 ELSE sample))

\* a temperature of 23.4 is displayed as 23 in a pass after one whose
\* temperature read failed
C7_Witness ==
    /\ "Temp" \in warned
    /\ call.label = "Temp"
    /\ sample = 234
    /\ call.value = 23

====
